---- MODULE Spec2Model ----
(***************************************************************************)
(* Model of aws-ec2-reserved-report.py: the normalization table, the two   *)
(* instance-type parsers, the two per-family aggregations and the          *)
(* per-family comparison of running against reserved capacity.             *)
(*                                                                         *)
(* Representation.                                                         *)
(*  - A Python str is a sequence of one-character strings, so that         *)
(*    str.split(".") and the ordering used by sorted() can be computed.    *)
(*  - Normalization factors are multiples of 0.25; every number that is a  *)
(*    factor or a sum of factors is held in quarter units (0.25 -> 1,      *)
(*    1 -> 4, 4 -> 16, ...).  Sums, differences and comparisons of such    *)
(*    values are exact in binary floating point, so the scaling preserves  *)
(*    every comparison the program makes.                                  *)
(*  - Times are whole days; time_left = End - now.                         *)
(***************************************************************************)
EXTENDS Integers, Sequences, FiniteSets, TLC

\* ------------------------------------------------------------------ bounds
\* largest number of "." separators in a string handed to the parsers
MaxDots == 2
\* largest number of running instances returned by describe_instances
MaxRunning == 2
\* largest number of active reservations returned by describe_reserved_instances
MaxReserved == 2

\* ------------------------------------------------------------ strings
Dot == "."

\* characters in ascending code-point order ("." < digits < upper < lower)
CharOrder ==
  << ".", "0", "1", "2", "3", "4", "5", "6", "8", "9", "L", "U",
     "a", "b", "c", "d", "e", "g", "i", "k", "l", "m", "n", "o", "r",
     "s", "u", "w", "x" >>

Ord(c) == CHOOSE i \in 1..Len(CharOrder) : CharOrder[i] = c

\* Python's str < str: lexicographic by code point, a proper prefix first
RECURSIVE StrLess(_, _)
StrLess(a, b) ==
  IF b = << >> THEN FALSE
  ELSE IF a = << >> THEN TRUE
  ELSE IF Head(a) = Head(b) THEN StrLess(Tail(a), Tail(b))
  ELSE Ord(Head(a)) < Ord(Head(b))

HasDot(s) == \E i \in 1..Len(s) : s[i] = Dot

FirstDot(s) == CHOOSE i \in 1..Len(s) : s[i] = Dot /\ \A j \in 1..(i - 1) : s[j] # Dot

\* str.split("."): the list of the segments between the separators
RECURSIVE split(_)
split(s) ==
  IF ~HasDot(s) THEN << s >>
  ELSE << SubSeq(s, 1, FirstDot(s) - 1) >> \o split(SubSeq(s, FirstDot(s) + 1, Len(s)))

\* ---------------------------------------------------- size designators
nano    == << "n", "a", "n", "o" >>
micro   == << "m", "i", "c", "r", "o" >>
small   == << "s", "m", "a", "l", "l" >>
medium  == << "m", "e", "d", "i", "u", "m" >>
large   == << "l", "a", "r", "g", "e" >>
xlarge  == << "x" >> \o large
bogus   == << "b", "o", "g", "u", "s" >>
Large   == << "L", "a", "r", "g", "e" >>
m5      == << "m", "5" >>
c5      == << "c", "5" >>
Unknown == << "U", "n", "k", "n", "o", "w", "n" >>

\* NORMALIZATION_FACTORS, in quarter units
NORMALIZATION_FACTORS ==
     (nano :> 1) @@ (micro :> 2) @@ (small :> 4) @@ (medium :> 8)
  @@ (large :> 16) @@ (xlarge :> 32)
  @@ ((<< "2" >> \o xlarge) :> 64)
  @@ ((<< "3" >> \o xlarge) :> 96)
  @@ ((<< "4" >> \o xlarge) :> 128)
  @@ ((<< "6" >> \o xlarge) :> 192)
  @@ ((<< "8" >> \o xlarge) :> 256)
  @@ ((<< "9" >> \o xlarge) :> 288)
  @@ ((<< "1", "0" >> \o xlarge) :> 320)
  @@ ((<< "1", "2" >> \o xlarge) :> 384)
  @@ ((<< "1", "6" >> \o xlarge) :> 512)
  @@ ((<< "1", "8" >> \o xlarge) :> 576)
  @@ ((<< "2", "4" >> \o xlarge) :> 768)
  @@ ((<< "3", "2" >> \o xlarge) :> 1024)
  @@ ((<< "5", "6" >> \o xlarge) :> 1792)
  @@ ((<< "1", "1", "2" >> \o xlarge) :> 3584)

\* NORMALIZATION_FACTORS.get(size, 0) with a default of one unit instead of 0
FactorOfDefaultOne(size) ==
  IF size \in DOMAIN NORMALIZATION_FACTORS THEN NORMALIZATION_FACTORS[size] ELSE 4

\* NORMALIZATION_FACTORS.get(size, 0)
FactorOf(size) ==
  IF size \in DOMAIN NORMALIZATION_FACTORS THEN NORMALIZATION_FACTORS[size] ELSE 0

\* the size taken as everything after the first "." (split(".", 1)[1])
SizeOfRemainder(parts, s) == SubSeq(s, FirstDot(s) + 1, Len(s))

\* instance_type.split(".")[1], defined when the list has a second element
SizeOf(parts, s) == parts[2]

\* get_normalization_factor: the IndexError of a list without a second
\* element is caught and answered with 0
get_normalization_factor(instance_type) ==
  LET parts == split(instance_type) IN
    IF Len(parts) < 2 THEN 0 ELSE FactorOf(SizeOf(parts, instance_type))

\* get_instance_family: split() never returns an empty list, so element 0
\* always exists; the IndexError handler is kept as the code has it
get_instance_family(instance_type) ==
  LET parts == split(instance_type) IN
    IF Len(parts) < 1 THEN Unknown ELSE parts[1]

\* ------------------------------------------------------------- inputs
\* segments that may follow a "."
Sizes == DOMAIN NORMALIZATION_FACTORS \cup { << >>, bogus, Large }
\* segments that may start a string
Families == { << >>, m5, c5, Unknown }

\* strings "s1.s2. ... .sn" with exactly n - 1 separators inside
RECURSIVE Tails(_)
Tails(n) ==
  IF n = 0 THEN Sizes
  ELSE { a \o << Dot >> \o b : a \in Sizes, b \in Tails(n - 1) }

TypeStrings ==
  Families \cup Sizes
    \cup UNION { { f \o << Dot >> \o t : f \in Families, t \in Tails(n - 1) } : n \in 1..MaxDots }

\* instance types of the running instances and of the reservations
m5_large  == m5 \o << Dot >> \o large
m5_xlarge == m5 \o << Dot >> \o xlarge
c5_large  == c5 \o << Dot >> \o large

\* (the last one is a string without ".": its family is the string itself
\* and its factor 0)
RunningTypes  == { m5_large, m5_xlarge, c5_large, Unknown }
ReservedTypes == { m5_large, c5_large }
Counts        == { 1, 2 }
OfferingClasses == { "standard", "convertible" }
\* End of the reservations and the values of datetime.now(), in days:
\* time_left is 6, 5 or -2
Ends          == { 7 }
Nows          == { 1, 2, 9 }

RECURSIVE SeqsUpTo(_, _)
SeqsUpTo(S, n) ==
  IF n = 0 THEN { << >> }
  ELSE LET shorter == SeqsUpTo(S, n - 1) IN
    shorter \cup { Append(q, x) : q \in { r \in shorter : Len(r) = n - 1 }, x \in S }


\* -------------------------------------------------------------- state
VARIABLES
  cpc, itype, nf, family,            \* one classification: position, argument, results
  pc,                                \* position in main()
  running_instances,                 \* result of get_running_instances
  reserved_instances,                \* result of get_reserved_instances
  running_by_family,                 \* result of print_running_instances
  reserved_by_family,                \* result of print_reserved_instances
  reserved_lines,                    \* lines printed by print_reserved_instances
  todo,                              \* families compare_instances has still to visit
  remaining_diff,                    \* local of compare_instances: << >> unbound, << v >> bound
  out                                \* lines printed by compare_instances

cvars == << cpc, itype, nf, family >>
mvars == << pc, running_instances, reserved_instances, running_by_family,
            reserved_by_family, reserved_lines, todo, remaining_diff, out >>
vars  == << cpc, itype, nf, family, pc, running_instances, reserved_instances,
            running_by_family, reserved_by_family, reserved_lines, todo,
            remaining_diff, out >>

EmptyDict == << >>

MainInit ==
  /\ pc = "start"
  /\ running_instances = << >>
  /\ reserved_instances = << >>
  /\ running_by_family = EmptyDict
  /\ reserved_by_family = EmptyDict
  /\ reserved_lines = << >>
  /\ todo = << >>
  /\ remaining_diff = << >>
  /\ out = << >>

ClassifyIdle ==
  /\ cpc = "idle"
  /\ itype = << >>
  /\ nf = 0
  /\ family = << >>

\* --------------------------------------------- the two parsers, called
\* in the order the callers use: factor first, family second
ClassifyInit ==
  /\ cpc = "call"
  /\ itype \in TypeStrings
  /\ nf = 0
  /\ family = << >>
  /\ MainInit

GetNormalizationFactor ==
  /\ cpc = "call"
  /\ nf' = get_normalization_factor(itype)
  /\ cpc' = "factor"
  /\ UNCHANGED << itype, family >>
  /\ UNCHANGED mvars

GetInstanceFamily ==
  /\ cpc = "factor"
  /\ family' = get_instance_family(itype)
  /\ cpc' = "classified"
  /\ UNCHANGED << itype, nf >>
  /\ UNCHANGED mvars

ClassifyNext == GetNormalizationFactor \/ GetInstanceFamily

SpecClassify == ClassifyInit /\ [][ClassifyNext]_vars

\* ------------------------------------------------------------- main()
\* one element of the list get_running_instances builds
RunningRecord(id, type) ==
  [ InstanceId |-> id,
    InstanceType |-> type,
    NormalizationFactor |-> get_normalization_factor(type),
    Family |-> get_instance_family(type) ]

\* TotalNF computed as nf + qty
ReservedRecordSum(r) ==
  [ InstanceType |-> r.InstanceType,
    NormalizationFactor |-> get_normalization_factor(r.InstanceType),
    Count |-> r.InstanceCount,
    TotalNF |-> get_normalization_factor(r.InstanceType) + r.InstanceCount,
    Convertible |-> (r.OfferingClass = "convertible"),
    End |-> r.End,
    Family |-> get_instance_family(r.InstanceType) ]

\* one element of the list get_reserved_instances builds
ReservedRecord(r) ==
  [ InstanceType |-> r.InstanceType,
    NormalizationFactor |-> get_normalization_factor(r.InstanceType),
    Count |-> r.InstanceCount,
    TotalNF |-> get_normalization_factor(r.InstanceType) * r.InstanceCount,
    Convertible |-> (r.OfferingClass = "convertible"),
    End |-> r.End,
    Family |-> get_instance_family(r.InstanceType) ]

\* what describe_reserved_instances may answer for one reservation
ApiReservations ==
  [ InstanceType : ReservedTypes, InstanceCount : Counts,
    OfferingClass : OfferingClasses, End : Ends ]

get_running_instances ==
  /\ pc = "start"
  /\ \E types \in SeqsUpTo(RunningTypes, MaxRunning) :
       running_instances' = [ i \in 1..Len(types) |-> RunningRecord(i, types[i]) ]
  /\ pc' = "got_running"
  /\ UNCHANGED << reserved_instances, running_by_family, reserved_by_family,
                  reserved_lines, todo, remaining_diff, out >>
  /\ UNCHANGED cvars

get_reserved_instances ==
  /\ pc = "got_running"
  /\ \E reserved \in SeqsUpTo(ApiReservations, MaxReserved) :
       reserved_instances' = [ i \in 1..Len(reserved) |-> ReservedRecord(reserved[i]) ]
  /\ pc' = "got_reserved"
  /\ UNCHANGED << running_instances, running_by_family, reserved_by_family,
                  reserved_lines, todo, remaining_diff, out >>
  /\ UNCHANGED cvars

\* running_by_family[Family] = NormalizationFactor (the last instance wins)
RunningAddOverwrite(acc, inst) ==
  IF inst.Family \in DOMAIN acc
    THEN [ acc EXCEPT ![inst.Family] = inst.NormalizationFactor ]
    ELSE acc @@ (inst.Family :> inst.NormalizationFactor)

\* running_by_family[inst['Family']] += inst["NormalizationFactor"]
\* on a defaultdict(float)
RunningAdd(acc, inst) ==
  IF inst.Family \in DOMAIN acc
    THEN [ acc EXCEPT ![inst.Family] = @ + inst.NormalizationFactor ]
    ELSE acc @@ (inst.Family :> (0 + inst.NormalizationFactor))

\* the loop of print_running_instances
RECURSIVE RunningFold(_, _)
RunningFold(instances, acc) ==
  IF instances = << >> THEN acc
  ELSE RunningFold(Tail(instances), RunningAdd(acc, Head(instances)))

print_running_instances ==
  /\ pc = "got_reserved"
  /\ running_by_family' = RunningFold(running_instances, EmptyDict)
  /\ pc' = "printed_running"
  /\ UNCHANGED << running_instances, reserved_instances, reserved_by_family,
                  reserved_lines, todo, remaining_diff, out >>
  /\ UNCHANGED cvars

\* the default value of reserved_by_family
NoReservation == [ fixed |-> 0, convertible |-> 0 ]

WithDefault(acc, fam) == IF fam \in DOMAIN acc THEN acc ELSE acc @@ (fam :> NoReservation)

\* the two buckets exchanged
ReservedAddSwapped(acc, r) ==
  IF r.Convertible
    THEN [ WithDefault(acc, r.Family) EXCEPT ![r.Family].fixed = @ + r.TotalNF ]
    ELSE [ WithDefault(acc, r.Family) EXCEPT ![r.Family].convertible = @ + r.TotalNF ]

\* reserved_by_family[r['Family']]["convertible" | "fixed"] += r["TotalNF"]
ReservedAdd(acc, r) ==
  IF r.Convertible
    THEN [ WithDefault(acc, r.Family) EXCEPT ![r.Family].convertible = @ + r.TotalNF ]
    ELSE [ WithDefault(acc, r.Family) EXCEPT ![r.Family].fixed = @ + r.TotalNF ]

RECURSIVE ReservedFold(_, _)
ReservedFold(reservations, acc) ==
  IF reservations = << >> THEN acc
  ELSE ReservedFold(Tail(reservations), ReservedAdd(acc, Head(reservations)))

\* timedelta(days=5)
FiveDays == 5

\* time_left < timedelta(days=5)
ExpiringStrict(end, now) == end - now < FiveDays

\* time_left <= timedelta(days=5): the end date is printed in red
Expiring(end, now) == end - now <= FiveDays

print_reserved_instances ==
  /\ pc = "printed_running"
  /\ \E now \in Nows :
       reserved_lines' =
         [ i \in 1..Len(reserved_instances) |->
             [ InstanceType |-> reserved_instances[i].InstanceType,
               time_left |-> reserved_instances[i].End - now,
               expiring |-> Expiring(reserved_instances[i].End, now) ] ]
  /\ reserved_by_family' = ReservedFold(reserved_instances, EmptyDict)
  /\ pc' = "printed_reserved"
  /\ UNCHANGED << running_instances, reserved_instances, running_by_family,
                  todo, remaining_diff, out >>
  /\ UNCHANGED cvars


\* ------------------------------------------------- compare_instances
\* sorted() in descending order
RECURSIVE sortedDescending(_)
sortedDescending(S) ==
  IF S = {} THEN << >>
  ELSE LET m == CHOOSE x \in S : \A y \in S \ {x} : StrLess(y, x)
       IN << m >> \o sortedDescending(S \ {m})

\* sorted(list(all_families)): ascending in Python's string order
RECURSIVE sorted(_)
sorted(S) ==
  IF S = {} THEN << >>
  ELSE LET m == CHOOSE x \in S : \A y \in S \ {x} : StrLess(x, y)
       IN << m >> \o sorted(S \ {m})

\* set(running_by_family.keys()).union(set(reserved_by_family.keys()))
all_families(running, reserved) == DOMAIN running \cup DOMAIN reserved

\* running_by_family.get(family, 0)
RunningGet(running, fam) == IF fam \in DOMAIN running THEN running[fam] ELSE 0

\* reserved_by_family.get(family, {}).get(bucket, 0)
ReservedGet(reserved, fam, bucket) ==
  IF fam \in DOMAIN reserved THEN reserved[fam][bucket] ELSE 0

abs(x) == IF x < 0 THEN -x ELSE x

\* remaining_diff computed as diff + convertible_reserved_nf
RemainingDiffPlus(diff, convertible_reserved_nf) == diff + convertible_reserved_nf

\* remaining_diff = diff - convertible_reserved_nf
RemainingDiff(diff, convertible_reserved_nf) == diff - convertible_reserved_nf

\* The message printed for one family, as the branch taken:
\*   "UnderCovered"         yellow, "... 超过预留实例 {remaining_diff} 积分 (即使考虑可转换型)"
\*   "CoveredByConvertible" cyan, "由可转换预留覆盖", or, when diff = 0,
\*                          "固定预留完全匹配 (有 {convertible} 可转换预留未使用)"
\*   "OverCovered"          green, "预留实例超过运行实例 {abs(diff)} 积分"
\*   "ExactMatch"           cyan, "完全匹配，无差异"
\* amount is the number the message gives after the status (<< >> when it
\* gives none); local is the value of remaining_diff after the branch.

\* the inner test written remaining_diff >= 0
BranchInclusive(diff, convertible_reserved_nf, local) ==
  IF diff > 0 THEN
    LET r == RemainingDiff(diff, convertible_reserved_nf) IN
      IF r >= 0
        THEN [ status |-> "UnderCovered", amount |-> << r >>, local |-> << r >> ]
        ELSE [ status |-> "CoveredByConvertible", amount |-> << >>, local |-> << r >> ]
  ELSE IF diff < 0 THEN
    [ status |-> "OverCovered", amount |-> << abs(diff) >>, local |-> local ]
  ELSE IF convertible_reserved_nf > 0 THEN
    [ status |-> "CoveredByConvertible", amount |-> << convertible_reserved_nf >>,
      local |-> local ]
  ELSE [ status |-> "ExactMatch", amount |-> << >>, local |-> local ]

\* the diff = 0 branch without the test of convertible_reserved_nf
BranchNoUnused(diff, convertible_reserved_nf, local) ==
  IF diff > 0 THEN
    LET r == RemainingDiff(diff, convertible_reserved_nf) IN
      IF r > 0
        THEN [ status |-> "UnderCovered", amount |-> << r >>, local |-> << r >> ]
        ELSE [ status |-> "CoveredByConvertible", amount |-> << >>, local |-> << r >> ]
  ELSE IF diff < 0 THEN
    [ status |-> "OverCovered", amount |-> << abs(diff) >>, local |-> local ]
  ELSE [ status |-> "ExactMatch", amount |-> << >>, local |-> local ]

\* the if / elif / else of compare_instances
Branch(diff, convertible_reserved_nf, local) ==
  IF diff > 0 THEN
    LET r == RemainingDiff(diff, convertible_reserved_nf) IN
      IF r > 0
        THEN [ status |-> "UnderCovered", amount |-> << r >>, local |-> << r >> ]
        ELSE [ status |-> "CoveredByConvertible", amount |-> << >>, local |-> << r >> ]
  ELSE IF diff < 0 THEN
    [ status |-> "OverCovered", amount |-> << abs(diff) >>, local |-> local ]
  ELSE IF convertible_reserved_nf > 0 THEN
    [ status |-> "CoveredByConvertible", amount |-> << convertible_reserved_nf >>,
      local |-> local ]
  ELSE [ status |-> "ExactMatch", amount |-> << >>, local |-> local ]

\* one iteration of the loop over the sorted families
CompareFamily(fam, running, reserved, local) ==
  LET running_nf == RunningGet(running, fam)
      fixed_reserved_nf == ReservedGet(reserved, fam, "fixed")
      convertible_reserved_nf == ReservedGet(reserved, fam, "convertible")
      diff == running_nf - fixed_reserved_nf
      b == Branch(diff, convertible_reserved_nf, local)
  IN [ line |-> [ family |-> fam,
                  running_nf |-> running_nf,
                  fixed_reserved_nf |-> fixed_reserved_nf,
                  convertible_reserved_nf |-> convertible_reserved_nf,
                  shows_convertible |-> (convertible_reserved_nf > 0),
                  diff |-> diff,
                  status |-> b.status,
                  amount |-> b.amount ],
       local |-> b.local ]

\* entry of compare_instances: the header and the sorted list of families
compare_instances ==
  /\ pc = "printed_reserved"
  /\ todo' = sorted(all_families(running_by_family, reserved_by_family))
  /\ pc' = "compare"
  /\ UNCHANGED << running_instances, reserved_instances, running_by_family,
                  reserved_by_family, reserved_lines, remaining_diff, out >>
  /\ UNCHANGED cvars

compare_family ==
  /\ pc = "compare"
  /\ todo # << >>
  /\ LET c == CompareFamily(Head(todo), running_by_family, reserved_by_family,
                            remaining_diff)
     IN /\ out' = Append(out, c.line)
        /\ remaining_diff' = c.local
  /\ todo' = Tail(todo)
  /\ UNCHANGED << pc, running_instances, reserved_instances, running_by_family,
                  reserved_by_family, reserved_lines >>
  /\ UNCHANGED cvars

\* end of the loop: the closing note is printed and main() returns
compare_return ==
  /\ pc = "compare"
  /\ todo = << >>
  /\ pc' = "done"
  /\ UNCHANGED << running_instances, reserved_instances, running_by_family,
                  reserved_by_family, reserved_lines, todo, remaining_diff, out >>
  /\ UNCHANGED cvars

Init == ClassifyIdle /\ MainInit

Next ==
  \/ get_running_instances
  \/ get_reserved_instances
  \/ print_running_instances
  \/ print_reserved_instances
  \/ compare_instances
  \/ compare_family
  \/ compare_return

Spec == Init /\ [][Next]_vars


\* =================================================== properties
\* helpers of the properties, computed without the operators above

\* sum of f[i] over the indices i in S
RECURSIVE SumOver(_, _)
SumOver(S, f) ==
  IF S = {} THEN 0
  ELSE LET i == CHOOSE j \in S : TRUE IN f[i] + SumOver(S \ {i}, f)

Last(s) == s[Len(s)]

\* positions of the first and of the second "." of the classified string
Dots(s) == { i \in 1..Len(s) : s[i] = Dot }
Dot1(s) == CHOOSE i \in Dots(s) : \A j \in Dots(s) : i <= j
Dot2(s) == CHOOSE i \in Dots(s) \ {Dot1(s)} : \A j \in Dots(s) \ {Dot1(s)} : i <= j

\* the text before the first ".", the text after it, and the text between
\* the first "." and the second (the whole remainder when there is no second)
BeforeFirstDot(s) == [ i \in 1..(Dot1(s) - 1) |-> s[i] ]
AfterFirstDot(s)  == [ i \in 1..(Len(s) - Dot1(s)) |-> s[Dot1(s) + i] ]
SecondSegment(s) ==
  IF Cardinality(Dots(s)) >= 2
    THEN [ i \in 1..(Dot2(s) - Dot1(s) - 1) |-> s[Dot1(s) + i] ]
    ELSE AfterFirstDot(s)

TableWeight(k) == IF k \in DOMAIN NORMALIZATION_FACTORS THEN NORMALIZATION_FACTORS[k] ELSE 0

\* both aggregation passes have just completed
Aggregated == pc = "printed_reserved"

RunningOf(fam) == { i \in 1..Len(running_instances) : running_instances[i].Family = fam }
ReservedOf(fam, conv) ==
  { i \in 1..Len(reserved_instances) :
      /\ reserved_instances[i].Family = fam
      /\ reserved_instances[i].Convertible = conv }

InputFamilies ==
  { running_instances[i].Family : i \in 1..Len(running_instances) }
    \cup { reserved_instances[i].Family : i \in 1..Len(reserved_instances) }

\* ------------------------------------------------------------------ C1
\* C1: a family with diff = running - fixed > 0 gets remaining_diff =
\* diff - convertible; it is reported UnderCovered with that amount when
\* remaining_diff > 0 and CoveredByConvertible when remaining_diff <= 0.
C1_ShortfallBranch ==
  (out # << >> /\ Last(out).diff > 0) =>
    LET l == Last(out)
        shortfall == (l.running_nf - l.fixed_reserved_nf) - l.convertible_reserved_nf
    IN /\ l.diff = l.running_nf - l.fixed_reserved_nf
       /\ remaining_diff = << shortfall >>
       /\ (shortfall > 0) => (l.status = "UnderCovered" /\ l.amount = << shortfall >>)
       /\ (shortfall <= 0) => l.status = "CoveredByConvertible"

C1_Witness ==
  /\ pc = "done"
  /\ \E i \in 1..Len(out) :
       /\ out[i].status = "UnderCovered"
       /\ out[i].convertible_reserved_nf > 0
  /\ \E i \in 1..Len(out) :
       /\ out[i].status = "CoveredByConvertible"
       /\ out[i].diff > 0

\* ------------------------------------------------------------------ C2
\* C2 as stated: with diff < 0 the family is OverCovered by |diff| and the
\* shortfall after convertible is set to 0; with diff = 0 it is ExactMatch
\* when convertible = 0 and CoveredByConvertible, reporting the convertible
\* amount as unused, when convertible > 0.
C2_AsStated ==
  (out # << >> /\ Last(out).diff <= 0) =>
    LET l == Last(out) IN
      /\ (l.diff < 0) =>
           /\ l.status = "OverCovered"
           /\ l.amount = << -l.diff >>
           /\ remaining_diff = << 0 >>
      /\ (l.diff = 0 /\ l.convertible_reserved_nf = 0) => l.status = "ExactMatch"
      /\ (l.diff = 0 /\ l.convertible_reserved_nf > 0) =>
           /\ l.status = "CoveredByConvertible"
           /\ l.amount = << l.convertible_reserved_nf >>

\* C2 amended: with diff < 0 the family is OverCovered by |diff| whatever
\* the convertible total, and with diff = 0 it is ExactMatch or
\* CoveredByConvertible as stated; in both cases no shortfall after
\* convertible is computed: remaining_diff keeps the value it had (unbound,
\* or the value left by an earlier family).
C2_NoShortfallComputed ==
  [][ (out' # out /\ Last(out').diff <= 0) =>
        LET l == Last(out') IN
          /\ remaining_diff' = remaining_diff
          /\ (l.diff < 0) =>
               /\ l.status = "OverCovered"
               /\ l.amount = << l.fixed_reserved_nf - l.running_nf >>
          /\ (l.diff = 0 /\ l.convertible_reserved_nf = 0) => l.status = "ExactMatch"
          /\ (l.diff = 0 /\ l.convertible_reserved_nf > 0) =>
               /\ l.status = "CoveredByConvertible"
               /\ l.amount = << l.convertible_reserved_nf >> ]_vars

C2_Witness ==
  /\ Len(out) >= 2
  /\ Last(out).diff < 0
  /\ Last(out).convertible_reserved_nf > 0
  /\ remaining_diff # << >>
  /\ remaining_diff # << 0 >>

\* ------------------------------------------------------------------ C3
\* C3: when compare_instances returns it has printed exactly one line for
\* each family of the running or reserved instances and for no other, in
\* strictly ascending string order, and a family missing from one input has
\* the missing totals printed as 0.
C3_OneLinePerFamilySorted ==
  (pc = "done") =>
    /\ { out[i].family : i \in 1..Len(out) } = InputFamilies
    /\ Len(out) = Cardinality(InputFamilies)
    /\ \A i \in 1..(Len(out) - 1) : StrLess(out[i].family, out[i + 1].family)
    /\ \A i \in 1..Len(out) :
         /\ (RunningOf(out[i].family) = {}) => out[i].running_nf = 0
         /\ (ReservedOf(out[i].family, TRUE) \cup ReservedOf(out[i].family, FALSE) = {}) =>
              /\ out[i].fixed_reserved_nf = 0
              /\ out[i].convertible_reserved_nf = 0

C3_Witness ==
  /\ pc = "done"
  /\ Len(out) = 2
  /\ RunningOf(out[1].family) # {}
  /\ ReservedOf(out[1].family, TRUE) \cup ReservedOf(out[1].family, FALSE) = {}
  /\ RunningOf(out[2].family) = {}

\* ------------------------------------------------------------------ C4
\* C4: a string without "." is classified into family "Unknown" with
\* weight 0.
C4_NoDotIsUnknown ==
  (cpc = "classified" /\ Dots(itype) = {}) => (family = Unknown /\ nf = 0)

\* ------------------------------------------------------------------ C5
\* C5 as stated: for a string with a ".", the family is the text before the
\* first "." and the weight is the table weight of everything after it.
C5_AsStated ==
  (cpc = "classified" /\ Dots(itype) # {}) =>
    /\ family = BeforeFirstDot(itype)
    /\ nf = TableWeight(AfterFirstDot(itype))

\* C5 amended: for a string with a ".", the family is the text before the
\* first "." and the weight is the table weight of the text between the
\* first "." and the second (everything after the first "." when there is
\* only one).
C5_SecondSegment ==
  (cpc = "classified" /\ Dots(itype) # {}) =>
    /\ family = BeforeFirstDot(itype)
    /\ nf = TableWeight(SecondSegment(itype))

C5_Witness ==
  /\ cpc = "classified"
  /\ Cardinality(Dots(itype)) = 2
  /\ nf > 0
  /\ AfterFirstDot(itype) \notin DOMAIN NORMALIZATION_FACTORS

\* ------------------------------------------------------------------ C6
\* C6: the lookup gives a weight > 0 for every size that is a key of the
\* table and exactly 0 for every size that is not.
C6_PositiveOrZero ==
  (cpc # "call" /\ cpc # "idle" /\ Dots(itype) # {}) =>
    /\ (SecondSegment(itype) \in DOMAIN NORMALIZATION_FACTORS) => nf > 0
    /\ (SecondSegment(itype) \notin DOMAIN NORMALIZATION_FACTORS) => nf = 0

C6_Witness ==
  /\ cpc = "factor"
  /\ Cardinality(Dots(itype)) = 1
  /\ SecondSegment(itype) = bogus
  /\ nf = 0

\* ------------------------------------------------------------------ C7
\* C7: after aggregation, a family's running total is the sum of the
\* factors of its running instances, its fixed total the sum of factor x
\* count over its non-convertible reservations and its convertible total
\* the sum over its convertible ones; a family has an entry exactly when it
\* has an instance, respectively a reservation.
C7_TotalsAreSums ==
  Aggregated =>
    /\ DOMAIN running_by_family =
         { running_instances[i].Family : i \in 1..Len(running_instances) }
    /\ DOMAIN reserved_by_family =
         { reserved_instances[i].Family : i \in 1..Len(reserved_instances) }
    /\ \A fam \in DOMAIN running_by_family :
         running_by_family[fam] =
           SumOver(RunningOf(fam),
                   [ i \in 1..Len(running_instances) |->
                       running_instances[i].NormalizationFactor ])
    /\ \A fam \in DOMAIN reserved_by_family :
         LET w == [ i \in 1..Len(reserved_instances) |->
                      reserved_instances[i].NormalizationFactor
                        * reserved_instances[i].Count ]
         IN /\ reserved_by_family[fam].fixed = SumOver(ReservedOf(fam, FALSE), w)
            /\ reserved_by_family[fam].convertible = SumOver(ReservedOf(fam, TRUE), w)

C7_Witness ==
  /\ pc = "printed_reserved"
  /\ Cardinality(RunningOf(m5)) = 2
  /\ running_by_family[m5] = 48
  /\ \E i \in ReservedOf(m5, FALSE) : reserved_instances[i].Count = 2
  /\ ReservedOf(m5, TRUE) # {}

\* ------------------------------------------------------------------ C8
\* C8: aggregating any permutation of the running instances and any
\* permutation of the reservations gives the same entries and totals.
Permuted(s, p) == [ i \in 1..Len(s) |-> s[p[i]] ]

C8_OrderIndependent ==
  Aggregated =>
    /\ \A p \in Permutations(1..Len(running_instances)) :
         RunningFold(Permuted(running_instances, p), EmptyDict) = running_by_family
    /\ \A p \in Permutations(1..Len(reserved_instances)) :
         ReservedFold(Permuted(reserved_instances, p), EmptyDict) = reserved_by_family

C8_Witness ==
  /\ pc = "printed_reserved"
  /\ Len(running_instances) = 2
  /\ running_instances[1].Family = running_instances[2].Family
  /\ running_instances[1].NormalizationFactor # running_instances[2].NormalizationFactor
  /\ Len(reserved_instances) = 2
  /\ reserved_instances[1].Family = reserved_instances[2].Family
  /\ reserved_instances[1].Convertible # reserved_instances[2].Convertible

\* ------------------------------------------------------------------ C9
\* C9: a reservation is printed as expiring exactly when End - now is at
\* most 5 days, the boundary and past dates included, and the totals are
\* those of the same reservations with any other End.
C9_ExpiringWithinFiveDays ==
  Aggregated =>
    /\ Len(reserved_lines) = Len(reserved_instances)
    /\ \A i \in 1..Len(reserved_lines) :
         reserved_lines[i].expiring <=> (reserved_lines[i].time_left <= 5)
    /\ ReservedFold([ i \in 1..Len(reserved_instances) |->
                       [ reserved_instances[i] EXCEPT !.End = 100 ] ], EmptyDict)
         = reserved_by_family

C9_Witness ==
  /\ pc = "printed_reserved"
  /\ Len(reserved_lines) = 2
  /\ \A i \in 1..Len(reserved_lines) :
       reserved_lines[i].time_left = 5 /\ reserved_lines[i].expiring

\* ----------------------------------------------------------------- C10
\* C10: a family is reported UnderCovered exactly when running > fixed +
\* convertible, then with the amount running - (fixed + convertible); the
\* totals of a line are the family's own totals, and two lines with the
\* same three totals carry the same status and amount.
C10_UnderCoveredIff ==
  \A i \in 1..Len(out) :
    LET l == out[i] IN
      /\ (l.status = "UnderCovered") <=>
           (l.running_nf > l.fixed_reserved_nf + l.convertible_reserved_nf)
      /\ (l.status = "UnderCovered") =>
           l.amount = << l.running_nf - (l.fixed_reserved_nf + l.convertible_reserved_nf) >>
      /\ l.running_nf =
           IF l.family \in DOMAIN running_by_family THEN running_by_family[l.family] ELSE 0
      /\ l.fixed_reserved_nf =
           IF l.family \in DOMAIN reserved_by_family
             THEN reserved_by_family[l.family].fixed ELSE 0
      /\ l.convertible_reserved_nf =
           IF l.family \in DOMAIN reserved_by_family
             THEN reserved_by_family[l.family].convertible ELSE 0
      /\ \A j \in 1..Len(out) :
           ( /\ out[j].running_nf = l.running_nf
             /\ out[j].fixed_reserved_nf = l.fixed_reserved_nf
             /\ out[j].convertible_reserved_nf = l.convertible_reserved_nf )
           => (out[j].status = l.status /\ out[j].amount = l.amount)

C10_Witness ==
  /\ pc = "done"
  /\ \E i \in 1..Len(out) :
       /\ out[i].status = "UnderCovered"
       /\ out[i].fixed_reserved_nf > 0
       /\ out[i].convertible_reserved_nf > 0
       /\ out[i].amount = << 16 >>

====
